---- MODULE Spec2Model ----
(***************************************************************************)
(* Youth Center Management System: the scheduling and registry subsystem   *)
(* of src/youth_center_management_system.py.                               *)
(*                                                                         *)
(* Strings whose content the code inspects (date tokens, ids) are          *)
(* sequences of one-character strings; opaque strings (time tokens,        *)
(* activity names, class names) are TLA+ strings.                          *)
(***************************************************************************)
EXTENDS Integers, Sequences, FiniteSets, TLC

(***************************************************************************)
(* Bounds of the model.                                                    *)
(***************************************************************************)
\* Most (date, time) entries held by all booking tables together.
MaxBookings == 2
\* Largest number of hours a volunteer is let to reach.
MaxHours == 3

\* Longest list a caller is let to build in a value it holds.
MaxHeld == 2

\* Largest value the id counter is let to reach.
MaxNextId == 4

(***************************************************************************)
(* Input universe.                                                         *)
(***************************************************************************)
Sat == <<"S", "a", "t">>
Sun == <<"S", "u", "n">>

Sat16 == <<"1", "6">> \o Sat
Sun17 == <<"1", "7">> \o Sun
Mon18 == <<"1", "8", "M", "o", "n">>

Dates == { Sat16, Sun17, Mon18 }
Times == { "10:00", "14:00" }
\* The (date, time) arguments of the calls of Spec.
Slots == { <<Sat16, "10:00">>, <<Mon18, "10:00">> }
ActivityNames == { "Math", "Art" }
Prefixes == { <<"C">>, <<"V">> }

C001 == <<"C", "0", "0", "1">>
E002 == <<"E", "0", "0", "2">>
V003 == <<"V", "0", "0", "3">>
V004 == <<"V", "0", "0", "4">>
V005 == <<"V", "0", "0", "5">>
Missing == <<"m", "i", "s", "s", "i", "n", "g">>

\* The person objects the callers have constructed.  Handles 1 and 3 are two
\* different objects carrying the same id; handles 4, 3, 6 and 5 are volunteers
\* of the four availability patterns the menu offers.
Persons ==
    << [cls |-> "Counselor", id |-> C001, availability |-> "none",
        name |-> "Emma Smith", area |-> "behavioral"],
       [cls |-> "Educator",  id |-> E002, availability |-> "none",
        name |-> "Valid Cert", area |-> "science"],
       [cls |-> "Volunteer", id |-> C001, availability |-> "weekends",
        name |-> "Sara Johnson", area |-> "none"],
       [cls |-> "Volunteer", id |-> V003, availability |-> "weekdays",
        name |-> "Weekday Person", area |-> "none"],
       [cls |-> "Volunteer", id |-> V004, availability |-> "evenings",
        name |-> "Evening Person", area |-> "none"],
       [cls |-> "Volunteer", id |-> V005, availability |-> "all",
        name |-> "Test Person", area |-> "none"] >>

Handles == 1..Len(Persons)
\* The objects Spec registers and books.
Staff == { o \in Handles : Persons[o].id \in { C001, E002 } }
\* The objects RegistrySpec registers.
Registrants == { o \in Handles : Persons[o].id \in { C001, E002, V003 } }
Ids == { Persons[o].id : o \in Registrants } \cup { Missing }
\* The objects of the classes that implement ICertified, and the Counselors.
Certified == { o \in Handles : Persons[o].cls \in { "Counselor", "Educator" } }
Counselors == { o \in Handles : Persons[o].cls = "Counselor" }
Volunteers == { o \in Handles : Persons[o].cls = "Volunteer" }

\* Expiry tokens: the default of the constructors, the threshold of
\* verify_certification, the day before it and the day after it.
Expiry20251231 == <<"2", "0", "2", "5", "-", "1", "2", "-", "3", "1">>
Expiry20230101 == <<"2", "0", "2", "3", "-", "0", "1", "-", "0", "1">>
Expiry20221231 == <<"2", "0", "2", "2", "-", "1", "2", "-", "3", "1">>
Expiry20230102 == <<"2", "0", "2", "3", "-", "0", "1", "-", "0", "2">>
Expiries == { Expiry20221231, Expiry20230101, Expiry20230102, Expiry20251231 }

\* The range the case_load setter accepts, and the values callers pass.
CaseLoadMin == 0
CaseLoadMax == 20
CaseLoads == (CaseLoadMin - 1)..(CaseLoadMax + 1)

VARIABLES
    schedules,   \* handle -> that object's _schedule dict (date -> list of times)
    personnel,   \* YouthCenter.__personnel: list of handles
    activities,  \* YouthCenter.__activities: name -> list of bookings
    next_id,     \* YouthCenter.__next_id
    last,        \* the last call: operation, object concerned and outcome
    minted,      \* the ids get_next_id has returned so far, in order
    held_personnel,  \* the value a caller got from YouthCenter.personnel
    held_activities, \* the value a caller got from YouthCenter.activities
    certification_expiry, \* handle -> _certification_expiry (Counselor, Educator)
    case_load,       \* handle -> _case_load (Counselor)
    hours_completed, \* handle -> _hours_completed (Volunteer)
    found            \* the record a caller got from find_person_by_id, 0 if none

vars == << schedules, personnel, activities, next_id, last, minted,
           held_personnel, held_activities, certification_expiry, case_load,
           hours_completed, found >>

(***************************************************************************)
(* Python helpers.                                                         *)
(***************************************************************************)
\* x in lst
InList(x, lst) == \E i \in 1..Len(lst) : lst[i] = x

\* str.endswith
endswith(s, suffix) ==
    /\ Len(s) >= Len(suffix)
    /\ SubSeq(s, Len(s) - Len(suffix) + 1, Len(s)) = suffix

\* Mutant: the new entry goes to the front of the list.
DictAppend_Prepend(d, date, time) ==
    [k \in DOMAIN d \cup { date } |->
        IF k # date THEN d[k]
        ELSE IF date \in DOMAIN d THEN << time >> \o d[date] ELSE << time >>]

\* if date not in d: d[date] = [] ; d[date].append(time)
DictAppend(d, date, time) ==
    LET d1 == IF date \notin DOMAIN d THEN d @@ (date :> << >>) ELSE d
    IN  [d1 EXCEPT ![date] = Append(@, time)]

EmptyDict == [k \in {} |-> << >>]

(***************************************************************************)
(* Counselor, Educator, Volunteer: the Schedulable methods.  `sch` is the   *)
(* object's _schedule dict.  schedule yields the outcome and the dict the  *)
(* call leaves behind.                                                     *)
(***************************************************************************)
Counselor_is_available(sch, date, time) ==
    date \notin DOMAIN sch \/ ~InList(time, sch[date])

\* Mutant: the slot is recorded without asking is_available.
Counselor_schedule_Unchecked(sch, date, time) ==
    [ret |-> "True", sch |-> DictAppend(sch, date, time)]

Counselor_schedule(sch, date, time) ==
    IF Counselor_is_available(sch, date, time)
    THEN [ret |-> "True", sch |-> DictAppend(sch, date, time)]
    ELSE [ret |-> "ScheduleConflictException", sch |-> sch]

Educator_is_available(sch, date, time) ==
    date \notin DOMAIN sch \/ ~InList(time, sch[date])

Educator_schedule(sch, date, time) ==
    IF Educator_is_available(sch, date, time)
    THEN [ret |-> "True", sch |-> DictAppend(sch, date, time)]
    ELSE [ret |-> "ScheduleConflictException", sch |-> sch]

\* Mutant: a weekends volunteer is available on Saturdays only.
Volunteer_is_available_SatOnly(availability, sch, date, time) ==
    IF date \in DOMAIN sch /\ InList(time, sch[date]) THEN FALSE
    ELSE IF availability = "weekends" /\ endswith(date, Sat) THEN TRUE
    ELSE IF availability = "weekdays" /\ ~(endswith(date, Sat) \/ endswith(date, Sun))
         THEN TRUE
    ELSE IF availability = "all" THEN TRUE
    ELSE FALSE

\* Python reads `a and b or c` as `(a and b) or c`.
Volunteer_is_available(availability, sch, date, time) ==
    IF date \in DOMAIN sch /\ InList(time, sch[date]) THEN FALSE
    ELSE IF (availability = "weekends" /\ endswith(date, Sat)) \/ endswith(date, Sun)
         THEN TRUE
    ELSE IF availability = "weekdays" /\ ~(endswith(date, Sat) \/ endswith(date, Sun))
         THEN TRUE
    ELSE IF availability = "all" THEN TRUE
    ELSE FALSE

\* Mutant: the availability pattern is not consulted.
Volunteer_schedule_NoPattern(availability, sch, date, time) ==
    IF date \in DOMAIN sch /\ InList(time, sch[date])
    THEN [ret |-> "ScheduleConflictException", sch |-> sch]
    ELSE [ret |-> "True", sch |-> DictAppend(sch, date, time)]

\* Mutant: the slot is recorded before the availability pattern is checked.
Volunteer_schedule_RecordFirst(availability, sch, date, time) ==
    IF date \in DOMAIN sch /\ InList(time, sch[date])
    THEN [ret |-> "ScheduleConflictException", sch |-> sch]
    ELSE [ret |-> IF Volunteer_is_available(availability, sch, date, time)
                  THEN "True" ELSE "ScheduleConflictException",
          sch |-> DictAppend(sch, date, time)]

Volunteer_schedule(availability, sch, date, time) ==
    IF date \in DOMAIN sch /\ InList(time, sch[date])
    THEN [ret |-> "ScheduleConflictException", sch |-> sch]
    ELSE IF Volunteer_is_available(availability, sch, date, time)
         THEN [ret |-> "True", sch |-> DictAppend(sch, date, time)]
         ELSE [ret |-> "ScheduleConflictException", sch |-> sch]

\* Method dispatch on the object's class.
is_available_of(o, sch, date, time) ==
    CASE Persons[o].cls = "Counselor" -> Counselor_is_available(sch, date, time)
      [] Persons[o].cls = "Educator"  -> Educator_is_available(sch, date, time)
      [] Persons[o].cls = "Volunteer" ->
            Volunteer_is_available(Persons[o].availability, sch, date, time)

schedule_of(o, sch, date, time) ==
    CASE Persons[o].cls = "Counselor" -> Counselor_schedule(sch, date, time)
      [] Persons[o].cls = "Educator"  -> Educator_schedule(sch, date, time)
      [] Persons[o].cls = "Volunteer" ->
            Volunteer_schedule(Persons[o].availability, sch, date, time)

\* isinstance(person, ISchedulable)
ISchedulable(o) == Persons[o].cls \in { "Counselor", "Educator", "Volunteer" }

(***************************************************************************)
(* YouthCenter: lookups over __personnel.                                  *)
(***************************************************************************)
\* Index of the first record with this id, 0 when there is none.
FirstIndex(plist, person_id) ==
    IF \E i \in 1..Len(plist) : Persons[plist[i]].id = person_id
    THEN CHOOSE i \in 1..Len(plist) :
            /\ Persons[plist[i]].id = person_id
            /\ \A j \in 1..(i - 1) : Persons[plist[j]].id # person_id
    ELSE 0

\* Mutant: the last element is moved into the hole.
Pop_SwapLast(lst, i) ==
    IF i = Len(lst) THEN SubSeq(lst, 1, Len(lst) - 1)
    ELSE SubSeq([lst EXCEPT ![i] = lst[Len(lst)]], 1, Len(lst) - 1)

\* list.pop(i)
Pop(lst, i) == SubSeq(lst, 1, i - 1) \o SubSeq(lst, i + 1, Len(lst))

\* Mutant: the search gives up after the first record.
find_person_FirstOnly(plist, person_id) ==
    IF Len(plist) > 0 /\ Persons[plist[1]].id = person_id THEN plist[1] ELSE 0

\* find_person_by_id: the handle found, or 0 for PersonNotFoundException.
find_person(plist, person_id) ==
    LET i == FirstIndex(plist, person_id) IN IF i = 0 THEN 0 ELSE plist[i]

\* The record of a call: `person` is the object the call was made on, or the
\* one the registry found for the id it was given (0 when it found none).
Call(op, person, result) == [op |-> op, person |-> person, result |-> result]

NoCall == Call("init", 0, "None")

\* A value of a dict a caller holds: the list object the registry keeps under
\* a name (shared), or a list of the caller's own.
Ref(name) == [shared |-> TRUE, of |-> name, own |-> << >>]
Own(lst) == [shared |-> FALSE, of |-> "", own |-> lst]

\* The caller has read nothing yet.
NoList == [state |-> "none", list |-> << >>]
NoDict == [state |-> "none", dict |-> EmptyDict]

\* A new center, and the objects with empty booking tables.
NewCenter ==
    /\ schedules = [o \in Handles |-> EmptyDict]
    /\ personnel = << >>
    /\ activities = EmptyDict
    /\ next_id = 1
    /\ last = NoCall
    /\ minted = << >>
    /\ held_personnel = NoList
    /\ held_activities = NoDict
    /\ hours_completed = [o \in Volunteers |-> 0]
    /\ found = 0

\* The objects were constructed with the default expiry and case load.
Init ==
    /\ NewCenter
    /\ certification_expiry = [o \in Certified |-> Expiry20251231]
    /\ case_load = [o \in Counselors |-> 0]

(***************************************************************************)
(* The methods, each as the outcome of one call in the current state: what *)
(* it returns or raises (ret), the object concerned (person) and the       *)
(* values it leaves in the objects' booking tables and in the registry.    *)
(***************************************************************************)
Outcome(ret, person, sch, pers, acts, nid) ==
    [ret |-> ret, person |-> person, schedules |-> sch, personnel |-> pers,
     activities |-> acts, next_id |-> nid]

\* Mutant: one booking table shared by all objects.
schedule_SharedTable(o, date, time) ==
    LET r == schedule_of(o, schedules[o], date, time) IN
    Outcome(r.ret, o, [x \in Handles |-> r.sch], personnel, activities, next_id)

\* person.schedule(date, time), called on any constructed object.
schedule(o, date, time) ==
    LET r == schedule_of(o, schedules[o], date, time) IN
    Outcome(r.ret, o, [schedules EXCEPT ![o] = r.sch], personnel, activities,
            next_id)

\* Mutant: the slot asked about is recorded in the booking table.
is_available_Records(o, date, time) ==
    Outcome(IF is_available_of(o, schedules[o], date, time) THEN "True" ELSE "False",
            o, [schedules EXCEPT ![o] = DictAppend(@, date, time)], personnel,
            activities, next_id)

\* person.is_available(date, time)
is_available(o, date, time) ==
    Outcome(IF is_available_of(o, schedules[o], date, time) THEN "True" ELSE "False",
            o, schedules, personnel, activities, next_id)

\* Mutant: the duplicate check compares objects, not ids.
add_person_ByIdentity(o) ==
    IF InList(o, personnel)
    THEN Outcome("False", o, schedules, personnel, activities, next_id)
    ELSE Outcome("True", o, schedules, Append(personnel, o), activities, next_id)

\* Mutant: no duplicate check.
add_person_NoCheck(o) ==
    Outcome("True", o, schedules, Append(personnel, o), activities, next_id)

add_person(o) ==
    IF \E i \in 1..Len(personnel) : Persons[personnel[i]].id = Persons[o].id
    THEN Outcome("False", o, schedules, personnel, activities, next_id)
    ELSE Outcome("True", o, schedules, Append(personnel, o), activities, next_id)

\* Mutant: the record removed loses its bookings.
remove_person_ClearsSchedule(person_id) ==
    LET i == FirstIndex(personnel, person_id) IN
    IF i # 0
    THEN Outcome("True", personnel[i], [schedules EXCEPT ![personnel[i]] = EmptyDict],
                 Pop(personnel, i), activities, next_id)
    ELSE Outcome("False", 0, schedules, personnel, activities, next_id)

\* Mutant: the bookings of the removed id leave the activities mapping.
remove_person_DropsActivities(person_id) ==
    LET i == FirstIndex(personnel, person_id) IN
    IF i # 0
    THEN Outcome("True", personnel[i], schedules, Pop(personnel, i),
                 [name \in DOMAIN activities |->
                     SelectSeq(activities[name],
                               LAMBDA b : b.responsible # person_id)],
                 next_id)
    ELSE Outcome("False", 0, schedules, personnel, activities, next_id)

remove_person(person_id) ==
    LET i == FirstIndex(personnel, person_id) IN
    IF i # 0
    THEN Outcome("True", personnel[i], schedules, Pop(personnel, i), activities,
                 next_id)
    ELSE Outcome("False", 0, schedules, personnel, activities, next_id)

\* Mutant: a copy of the record is returned, which is another object with the
\* same id and the same bookings.
find_person_by_id_Copy(person_id) ==
    LET p == find_person(personnel, person_id)
        copy == IF p = 0 THEN 0
                ELSE CHOOSE x \in Handles :
                        /\ Persons[x].id = Persons[p].id
                        /\ (x # p \/ \A y \in Handles \ { p } : Persons[y].id # Persons[p].id)
    IN  IF p = 0
        THEN Outcome("PersonNotFoundException", 0, schedules, personnel,
                     activities, next_id)
        ELSE Outcome("person", copy, [schedules EXCEPT ![copy] = schedules[p]],
                     personnel, activities, next_id)

find_person_by_id(person_id) ==
    LET p == find_person(personnel, person_id) IN
    Outcome(IF p = 0 THEN "PersonNotFoundException" ELSE "person", p,
            schedules, personnel, activities, next_id)

\* Mutant: the first record of the class only.
personnel_by_type_First(plist, person_class) ==
    LET IsInstance(o) == Persons[o].cls = person_class
        all == SelectSeq(plist, IsInstance)
    IN  IF all = << >> THEN << >> ELSE << Head(all) >>

\* [p for p in plist if isinstance(p, person_class)]
personnel_by_type(plist, person_class) ==
    LET IsInstance(o) == Persons[o].cls = person_class
    IN  SelectSeq(plist, IsInstance)

get_personnel_by_type(person_class) ==
    Outcome(personnel_by_type(personnel, person_class), 0, schedules, personnel,
            activities, next_id)

\* The counts dict get_personnel_count builds over a personnel list.
personnel_count(plist) ==
    [Counselor |-> Len(personnel_by_type(plist, "Counselor")),
     Educator  |-> Len(personnel_by_type(plist, "Educator")),
     Volunteer |-> Len(personnel_by_type(plist, "Volunteer"))]

get_personnel_count ==
    Outcome(personnel_count(personnel), 0, schedules, personnel, activities,
            next_id)

\* Mutant: an activity name that is in use is refused.
create_activity_UniqueName(name, date, time, responsible_person_id) ==
    LET person == find_person(personnel, responsible_person_id) IN
    IF person = 0 \/ name \in DOMAIN activities
    THEN Outcome("False", person, schedules, personnel, activities, next_id)
    ELSE LET r == schedule_of(person, schedules[person], date, time) IN
         IF r.ret = "True"
         THEN Outcome("True", person, [schedules EXCEPT ![person] = r.sch],
                      personnel,
                      DictAppend(activities, name,
                                 [date |-> date, time |-> time,
                                  responsible |-> Persons[person].id]),
                      next_id)
         ELSE Outcome("False", person, schedules, personnel, activities, next_id)

\* Mutant: the booking is stored although schedule raised.
create_activity_StoresRefused(name, date, time, responsible_person_id) ==
    LET person == find_person(personnel, responsible_person_id) IN
    IF person = 0 \/ ~ISchedulable(person)
    THEN Outcome("False", person, schedules, personnel, activities, next_id)
    ELSE LET r == schedule_of(person, schedules[person], date, time) IN
         Outcome(IF r.ret = "True" THEN "True" ELSE "False", person,
                 [schedules EXCEPT ![person] = r.sch], personnel,
                 DictAppend(activities, name,
                            [date |-> date, time |-> time,
                             responsible |-> Persons[person].id]),
                 next_id)

\* Mutant: the booking is stored and schedule is not called.
create_activity_NoSchedule(name, date, time, responsible_person_id) ==
    LET person == find_person(personnel, responsible_person_id) IN
    IF person = 0 \/ ~ISchedulable(person)
       \/ ~is_available_of(person, schedules[person], date, time)
    THEN Outcome("False", person, schedules, personnel, activities, next_id)
    ELSE Outcome("True", person, schedules, personnel,
                 DictAppend(activities, name,
                            [date |-> date, time |-> time,
                             responsible |-> Persons[person].id]),
                 next_id)

create_activity(name, date, time, responsible_person_id) ==
    LET person == find_person(personnel, responsible_person_id) IN
    IF person = 0
    THEN \* PersonNotFoundException, caught
         Outcome("False", 0, schedules, personnel, activities, next_id)
    ELSE IF ~ISchedulable(person)
    THEN Outcome("False", person, schedules, personnel, activities, next_id)
    ELSE LET r == schedule_of(person, schedules[person], date, time) IN
         IF r.ret = "True"
         THEN Outcome("True", person, [schedules EXCEPT ![person] = r.sch],
                      personnel,
                      DictAppend(activities, name,
                                 [date |-> date, time |-> time,
                                  responsible |-> Persons[person].id]),
                      next_id)
         ELSE \* ScheduleConflictException, caught
              Outcome("False", person, [schedules EXCEPT ![person] = r.sch],
                      personnel, activities, next_id)

\* Three decimal digits at least, as the format spec 03d gives them.
Digit(n) == CASE n = 0 -> "0" [] n = 1 -> "1" [] n = 2 -> "2" [] n = 3 -> "3"
              [] n = 4 -> "4" [] n = 5 -> "5" [] n = 6 -> "6" [] n = 7 -> "7"
              [] n = 8 -> "8" [] n = 9 -> "9"

RECURSIVE Decimal(_)
Decimal(n) == IF n < 10 THEN << Digit(n) >>
              ELSE Append(Decimal(n \div 10), Digit(n % 10))

RECURSIVE ZeroPad(_, _)
ZeroPad(s, width) == IF Len(s) >= width THEN s ELSE ZeroPad(<< "0" >> \o s, width)

Format03d(n) == ZeroPad(Decimal(n), 3)

\* Mutant: the counter is read and not advanced.
get_next_id_NoIncrement(role_prefix) ==
    Outcome(role_prefix \o Format03d(next_id), 0, schedules, personnel,
            activities, next_id)

\* ret is the id minted.
get_next_id(role_prefix) ==
    Outcome(role_prefix \o Format03d(next_id), 0, schedules, personnel,
            activities, next_id + 1)

(***************************************************************************)
(* Certifications and the case load.                                       *)
(***************************************************************************)
\* The number a string of decimal digits writes.
DigitValue(ch) == CHOOSE n \in 0..9 : Digit(n) = ch

RECURSIVE DecimalValue(_)
DecimalValue(s) ==
    IF s = << >> THEN 0
    ELSE 10 * DecimalValue(SubSeq(s, 1, Len(s) - 1)) + DigitValue(s[Len(s)])

\* ord() of the characters of an expiry token.
ord(ch) == IF ch = "-" THEN 45 ELSE 48 + DigitValue(ch)

\* a > b on str: the first differing character decides, a proper prefix is
\* the smaller.
RECURSIVE str_gt(_, _)
str_gt(a, b) ==
    IF a = << >> THEN FALSE
    ELSE IF b = << >> THEN TRUE
    ELSE IF a[1] # b[1] THEN ord(a[1]) > ord(b[1])
    ELSE str_gt(Tail(a), Tail(b))

\* Mutant: an expiry equal to the threshold counts as valid.
Counselor_verify_certification_Inclusive(expiry) ==
    str_gt(expiry, Expiry20230101) \/ expiry = Expiry20230101

Counselor_verify_certification(expiry) ==
    IF str_gt(expiry, Expiry20230101) THEN TRUE ELSE FALSE

Educator_verify_certification(expiry) ==
    IF str_gt(expiry, Expiry20230101) THEN TRUE ELSE FALSE

\* The f-strings, as the sequence of their pieces.
Counselor_get_certification_details(specialization, expiry) ==
    << "Certification in ", specialization, " counseling, expires: " >> \o expiry

Educator_get_certification_details(subject, expiry) ==
    << "Teaching certification in ", subject, ", expires: " >> \o expiry

\* isinstance(person, ICertified)
ICertified(o) == Persons[o].cls \in { "Counselor", "Educator" }

verify_certification_of(o) ==
    CASE Persons[o].cls = "Counselor" ->
            Counselor_verify_certification(certification_expiry[o])
      [] Persons[o].cls = "Educator" ->
            Educator_verify_certification(certification_expiry[o])

get_certification_details_of(o) ==
    CASE Persons[o].cls = "Counselor" ->
            Counselor_get_certification_details(Persons[o].area,
                                                certification_expiry[o])
      [] Persons[o].cls = "Educator" ->
            Educator_get_certification_details(Persons[o].area,
                                               certification_expiry[o])

verify_certification(o) ==
    Outcome(IF verify_certification_of(o) THEN "True" ELSE "False", o,
            schedules, personnel, activities, next_id)

\* Mutant: the details are taken from the record whether valid or not.
CertificationResult_AlwaysDetails(person) ==
    [id |-> Persons[person].id, name |-> Persons[person].name,
     certification_valid |-> verify_certification_of(person),
     details |-> get_certification_details_of(person)]

\* The dict verify_all_certifications appends for one record.
CertificationResult(person) ==
    LET is_valid == verify_certification_of(person) IN
    [id |-> Persons[person].id, name |-> Persons[person].name,
     certification_valid |-> is_valid,
     details |-> IF is_valid THEN get_certification_details_of(person)
                 ELSE << "Certification invalid or expired" >>]

RECURSIVE CertificationResults(_)
CertificationResults(plist) ==
    IF plist = << >> THEN << >>
    ELSE IF ICertified(Head(plist))
    THEN << CertificationResult(Head(plist)) >> \o CertificationResults(Tail(plist))
    ELSE CertificationResults(Tail(plist))

verify_all_certifications ==
    Outcome(CertificationResults(personnel), 0, schedules, personnel,
            activities, next_id)

\* Mutant: a value out of range is capped to the nearer end of the range.
case_load_setter_Capped(old, value) ==
    IF value < CaseLoadMin THEN CaseLoadMin
    ELSE IF value > CaseLoadMax THEN CaseLoadMax
    ELSE value

\* The case_load setter: the value the attribute has after `c.case_load = value`.
case_load_setter(old, value) ==
    IF CaseLoadMin <= value /\ value <= CaseLoadMax THEN value ELSE old

\* Mutant: any value is stored.
hours_completed_setter_NoCheck(old, value) == value

\* The hours_completed setter: the value the attribute has after
\* `v.hours_completed = value`.
hours_completed_setter(old, value) == IF value >= 0 THEN value ELSE old

\* What a log_hours call returns and leaves in the objects.
Logged(ret, hours, sch) == [ret |-> ret, hours_completed |-> hours, schedules |-> sch]

\* Mutant: zero hours are logged as well.
log_hours_ZeroAccepted(o, hours) ==
    IF hours >= 0
    THEN Logged("True", [hours_completed EXCEPT ![o] = @ + hours], schedules)
    ELSE Logged("False", hours_completed, schedules)

log_hours(o, hours) ==
    IF hours > 0
    THEN Logged("True", [hours_completed EXCEPT ![o] = @ + hours], schedules)
    ELSE Logged("False", hours_completed, schedules)

(***************************************************************************)
(* The personnel and activities properties, and what a caller can do with  *)
(* the list or dict it got.  A held value in state "copy" is an object of  *)
(* its own; in state "live" it is the registry's object itself.            *)
(***************************************************************************)
\* Mutant: the registry's list is returned, not a copy.
YouthCenter_personnel_Live == [state |-> "live", list |-> << >>]

\* self.__personnel.copy(): a new list holding the same objects.
YouthCenter_personnel == [state |-> "copy", list |-> personnel]

\* self.__activities.copy(): a new dict whose values are the registry's own
\* list objects.
YouthCenter_activities ==
    [state |-> "copy", dict |-> [name \in DOMAIN activities |-> Ref(name)]]

\* What the caller sees in the values it holds.
ListOf(h) == IF h.state = "live" THEN personnel ELSE h.list
NamesOf(h) == IF h.state = "live" THEN DOMAIN activities ELSE DOMAIN h.dict
BookingsOf(h, name) ==
    IF h.state = "live" THEN activities[name]
    ELSE IF h.dict[name].shared THEN activities[h.dict[name].of]
    ELSE h.dict[name].own

\* The outcome of a caller's statement: the held values and the registry's.
Caller(hp, ha, pers, acts) ==
    [held_personnel |-> hp, held_activities |-> ha,
     personnel |-> pers, activities |-> acts]

WriteList(lst) ==
    IF held_personnel.state = "live"
    THEN Caller(held_personnel, held_activities, lst, activities)
    ELSE Caller([held_personnel EXCEPT !.list = lst], held_activities,
                personnel, activities)

\* lst.pop()
list_pop ==
    LET lst == ListOf(held_personnel)
    IN  WriteList(SubSeq(lst, 1, Len(lst) - 1))

\* lst.append(o)
list_append(o) == WriteList(Append(ListOf(held_personnel), o))

\* lst[i] = o, i counted from 1
list_setitem(i, o) == WriteList([ListOf(held_personnel) EXCEPT ![i] = o])

Without(d, name) == [k \in DOMAIN d \ { name } |-> d[k]]
With(d, name, value) ==
    [k \in DOMAIN d \cup { name } |-> IF k = name THEN value ELSE d[k]]

\* d[name] = []
dict_setitem(name) ==
    IF held_activities.state = "live"
    THEN Caller(held_personnel, held_activities, personnel,
                With(activities, name, << >>))
    ELSE Caller(held_personnel,
                [held_activities EXCEPT !.dict = With(@, name, Own(<< >>))],
                personnel, activities)

\* del d[name]
dict_del(name) ==
    IF held_activities.state = "live"
    THEN Caller(held_personnel, held_activities, personnel,
                Without(activities, name))
    ELSE Caller(held_personnel,
                [held_activities EXCEPT !.dict = Without(@, name)],
                personnel, activities)

\* The list d[name] is given the value lst in place.
WriteBookings(name, lst) ==
    IF held_activities.state = "live"
    THEN Caller(held_personnel, held_activities, personnel,
                [activities EXCEPT ![name] = lst])
    ELSE IF held_activities.dict[name].shared
    THEN Caller(held_personnel, held_activities, personnel,
                [activities EXCEPT ![held_activities.dict[name].of] = lst])
    ELSE Caller(held_personnel,
                [held_activities EXCEPT !.dict[name] = Own(lst)],
                personnel, activities)

\* d[name].append(booking)
bookings_append(name, booking) ==
    WriteBookings(name, Append(BookingsOf(held_activities, name), booking))

\* d[name].clear()
bookings_clear(name) == WriteBookings(name, << >>)

(***************************************************************************)
(* Steps: one call, its outcome becoming the next state.                   *)
(***************************************************************************)
\* Entries held by all the booking tables of sch together.
TotalBookings(sch) ==
    Cardinality({ x \in Handles \X Dates \X Times :
                    /\ x[2] \in DOMAIN sch[x[1]]
                    /\ InList(x[3], sch[x[1]][x[2]]) })

Apply(op, c) ==
    /\ c.next_id <= MaxNextId
    /\ c.schedules # schedules => TotalBookings(c.schedules) <= MaxBookings
    /\ schedules' = c.schedules
    /\ personnel' = c.personnel
    /\ activities' = c.activities
    /\ next_id' = c.next_id
    /\ last' = Call(op, c.person,
                    IF op = "get_next_id" THEN "id"
                    ELSE IF op = "verify_all_certifications" THEN "list"
                    ELSE IF op = "get_personnel_by_type" THEN "list"
                    ELSE IF op = "get_personnel_count" THEN "dict"
                    ELSE c.ret)
    /\ minted' = IF op = "get_next_id" THEN Append(minted, c.ret) ELSE minted
    /\ UNCHANGED << held_personnel, held_activities, certification_expiry,
                    case_load, hours_completed, found >>

Schedule(o, date, time) == Apply("schedule", schedule(o, date, time))

AddPerson(o) == Apply("add_person", add_person(o))

RemovePerson(person_id) == Apply("remove_person", remove_person(person_id))

FindPersonById(person_id) == Apply("find_person_by_id", find_person_by_id(person_id))

CreateActivity(name, date, time, person_id) ==
    Apply("create_activity", create_activity(name, date, time, person_id))

IsAvailable(o, date, time) == Apply("is_available", is_available(o, date, time))

GetNextId(role_prefix) == Apply("get_next_id", get_next_id(role_prefix))

GetPersonnelByType(person_class) ==
    Apply("get_personnel_by_type", get_personnel_by_type(person_class))

GetPersonnelCount == Apply("get_personnel_count", get_personnel_count)

VerifyCertification(o) ==
    Apply("verify_certification", verify_certification(o))

VerifyAllCertifications ==
    Apply("verify_all_certifications", verify_all_certifications)

\* counselor.case_load = value
SetCaseLoad(o, value) ==
    /\ case_load' = [case_load EXCEPT ![o] = case_load_setter(@, value)]
    /\ last' = Call("case_load", o, "None")
    /\ UNCHANGED << schedules, personnel, activities, next_id, minted,
                    held_personnel, held_activities, certification_expiry,
                    hours_completed, found >>

\* p = center.find_person_by_id(person_id): the caller keeps the record; when
\* the call raises nothing is assigned.
Obtain(person_id) ==
    LET c == find_person_by_id(person_id) IN
    /\ found' = IF c.ret = "person" THEN c.person ELSE found
    /\ schedules' = c.schedules
    /\ personnel' = c.personnel
    /\ activities' = c.activities
    /\ next_id' = c.next_id
    /\ last' = Call("find_person_by_id", c.person, c.ret)
    /\ UNCHANGED << minted, held_personnel, held_activities,
                    certification_expiry, case_load, hours_completed >>

\* p.schedule(date, time) and p.is_available(date, time) on the record kept.
ScheduleFound(date, time) == found # 0 /\ Schedule(found, date, time)

IsAvailableFound(date, time) == found # 0 /\ IsAvailable(found, date, time)

\* volunteer.log_hours(hours)
LogHours(o, hours) ==
    LET c == log_hours(o, hours) IN
    /\ c.hours_completed[o] <= MaxHours
    /\ hours_completed' = c.hours_completed
    /\ schedules' = c.schedules
    /\ last' = Call("log_hours", o, c.ret)
    /\ UNCHANGED << personnel, activities, next_id, minted, held_personnel,
                    held_activities, certification_expiry, case_load, found >>

\* volunteer.hours_completed = value
SetHours(o, value) ==
    /\ hours_completed' = [hours_completed EXCEPT ![o] = hours_completed_setter(@, value)]
    /\ last' = Call("hours_completed", o, "None")
    /\ UNCHANGED << schedules, personnel, activities, next_id, minted,
                    held_personnel, held_activities, certification_expiry,
                    case_load, found >>

\* The caller reads a property and keeps the value.
ReadPersonnel ==
    /\ held_personnel' = YouthCenter_personnel
    /\ last' = Call("personnel", 0, "None")
    /\ UNCHANGED << schedules, personnel, activities, next_id, minted,
                    held_activities, certification_expiry, case_load,
                    hours_completed, found >>

ReadActivities ==
    /\ held_activities' = YouthCenter_activities
    /\ last' = Call("activities", 0, "None")
    /\ UNCHANGED << schedules, personnel, activities, next_id, minted,
                    held_personnel, certification_expiry, case_load,
                    hours_completed, found >>

\* The longest list in the values held and in the activities.
Longest(c) ==
    LET lens == { Len(c.held_personnel.list) }
                \cup { Len(c.activities[name]) : name \in DOMAIN c.activities }
                \cup { Len(c.held_activities.dict[name].own) :
                         name \in DOMAIN c.held_activities.dict }
    IN  CHOOSE n \in lens : \A m \in lens : m <= n

\* One statement of the caller on a value it holds.
CallerStep(op, c) ==
    /\ Longest(c) <= MaxHeld
    /\ held_personnel' = c.held_personnel
    /\ held_activities' = c.held_activities
    /\ personnel' = c.personnel
    /\ activities' = c.activities
    /\ last' = Call(op, 0, "None")
    /\ UNCHANGED << schedules, next_id, minted, certification_expiry, case_load,
                    hours_completed, found >>

ListPop ==
    /\ held_personnel.state # "none"
    /\ Len(ListOf(held_personnel)) > 0
    /\ CallerStep("list.pop", list_pop)

ListAppend(o) ==
    /\ held_personnel.state # "none"
    /\ CallerStep("list.append", list_append(o))

ListSetItem(i, o) ==
    /\ held_personnel.state # "none"
    /\ i \in 1..Len(ListOf(held_personnel))
    /\ CallerStep("list.setitem", list_setitem(i, o))

DictSetItem(name) ==
    /\ held_activities.state # "none"
    /\ CallerStep("dict.setitem", dict_setitem(name))

DictDel(name) ==
    /\ held_activities.state # "none"
    /\ name \in NamesOf(held_activities)
    /\ CallerStep("dict.del", dict_del(name))

BookingsAppend(name, booking) ==
    /\ held_activities.state # "none"
    /\ name \in NamesOf(held_activities)
    /\ CallerStep("bookings.append", bookings_append(name, booking))

BookingsClear(name) ==
    /\ held_activities.state # "none"
    /\ name \in NamesOf(held_activities)
    /\ CallerStep("bookings.clear", bookings_clear(name))

(***************************************************************************)
(* Spec: bookings and the registry.  Any call of schedule, add_person,     *)
(* remove_person and create_activity, on the objects of Staff.             *)
(***************************************************************************)
Next ==
    \/ \E o \in Staff, slot \in Slots : Schedule(o, slot[1], slot[2])
    \/ \E o \in Staff : AddPerson(o)
    \/ \E person_id \in Ids : RemovePerson(person_id)
    \/ \E name \in ActivityNames, slot \in Slots, person_id \in Ids :
          CreateActivity(name, slot[1], slot[2], person_id)

Spec == Init /\ [][Next]_vars

(***************************************************************************)
(* RegistrySpec: the personnel list and the id counter.  The objects of    *)
(* Registrants are registered; activities are created for one name and one *)
(* slot.                                                                   *)
(***************************************************************************)
RegistryNext ==
    \/ \E o \in Registrants : AddPerson(o)
    \/ \E person_id \in Ids : RemovePerson(person_id)
    \/ \E person_id \in Ids : FindPersonById(person_id)
    \/ \E person_id \in Ids : CreateActivity("Math", Sat16, "10:00", person_id)
    \/ \E role_prefix \in Prefixes : GetNextId(role_prefix)
    \/ GetPersonnelCount

RegistrySpec == Init /\ [][RegistryNext]_vars

(***************************************************************************)
(* BookingSpec: the booking tables alone.  Any schedule and is_available   *)
(* call, on every object, date and time.                                   *)
(***************************************************************************)
BookingNext ==
    \/ \E o \in Handles, date \in Dates, time \in Times : Schedule(o, date, time)
    \/ \E o \in Handles, date \in Dates, time \in Times : IsAvailable(o, date, time)

BookingSpec == Init /\ [][BookingNext]_vars

(***************************************************************************)
(* CopySpec: a caller reads the personnel and activities properties and    *)
(* changes the values it got, while the registry is used.                  *)
(***************************************************************************)
\* The objects CopySpec registers, and the booking the caller writes.
Members == { o \in Handles : Persons[o].cls = "Counselor" }
\* The objects the caller puts in a list it holds.
Newcomers == { o \in Handles : Persons[o].availability = "all" }
CallerBooking == [date |-> Mon18, time |-> "14:00", responsible |-> Missing]

CopyNext ==
    \/ \E o \in Members : AddPerson(o)
    \/ \E o \in Members : RemovePerson(Persons[o].id)
    \/ \E o \in Members : CreateActivity("Math", Sat16, "10:00", Persons[o].id)
    \/ ReadPersonnel
    \/ ReadActivities
    \/ ListPop
    \/ \E o \in Newcomers : ListAppend(o)
    \/ \E i \in 1..MaxHeld, o \in Newcomers : ListSetItem(i, o)
    \/ \E name \in ActivityNames : DictSetItem(name)
    \/ \E name \in ActivityNames : DictDel(name)
    \/ \E name \in ActivityNames : BookingsAppend(name, CallerBooking)
    \/ \E name \in ActivityNames : BookingsClear(name)

CopySpec == Init /\ [][CopyNext]_vars

(***************************************************************************)
(* CertificationSpec: records constructed with any of the expiry tokens    *)
(* are registered, removed, booked and asked for their certification.      *)
(***************************************************************************)
CertificationInit ==
    /\ NewCenter
    /\ certification_expiry \in [Certified -> Expiries]
    /\ case_load = [o \in Counselors |-> 0]

CertificationNext ==
    \/ \E o \in Registrants : AddPerson(o)
    \/ \E person_id \in Ids : RemovePerson(person_id)
    \/ \E o \in Certified : Schedule(o, Sat16, "10:00")
    \/ \E o \in Certified : VerifyCertification(o)
    \/ VerifyAllCertifications

CertificationSpec == CertificationInit /\ [][CertificationNext]_vars

(***************************************************************************)
(* CaseLoadSpec: a Counselor constructed with any case load is registered, *)
(* removed and assigned case loads.                                        *)
(***************************************************************************)
CaseLoadInit ==
    /\ NewCenter
    /\ certification_expiry = [o \in Certified |-> Expiry20251231]
    /\ case_load \in [Counselors -> CaseLoads]

CaseLoadNext ==
    \/ \E o \in Counselors, value \in CaseLoads : SetCaseLoad(o, value)
    \/ \E o \in Counselors : AddPerson(o)
    \/ \E o \in Counselors : RemovePerson(Persons[o].id)

CaseLoadSpec == CaseLoadInit /\ [][CaseLoadNext]_vars

(***************************************************************************)
(* HoursSpec: volunteers log hours, are assigned hours and are booked.     *)
(***************************************************************************)
\* The volunteers of HoursSpec, and the hours logged and assigned.
Helpers == { o \in Volunteers : Persons[o].availability \in { "weekends", "all" } }
HourDeltas == -1..(MaxHours - 1)
HourValues == -1..MaxHours

HoursNext ==
    \/ \E o \in Helpers, hours \in HourDeltas : LogHours(o, hours)
    \/ \E o \in Helpers, value \in HourValues : SetHours(o, value)
    \/ \E o \in Helpers, time \in Times : Schedule(o, Sat16, time)

HoursSpec == Init /\ [][HoursNext]_vars

(***************************************************************************)
(* LiveSpec: a caller keeps a record it got from find_person_by_id, books  *)
(* and asks it directly, while the registry is used.                       *)
(***************************************************************************)
LiveNext ==
    \/ \E o \in Staff : AddPerson(o)
    \/ \E o \in Staff : RemovePerson(Persons[o].id)
    \/ \E person_id \in Ids : Obtain(person_id)
    \/ \E slot \in Slots : ScheduleFound(slot[1], slot[2])
    \/ \E slot \in Slots : IsAvailableFound(slot[1], slot[2])
    \/ \E slot \in Slots, o \in Staff :
          CreateActivity("Math", slot[1], slot[2], Persons[o].id)

LiveSpec == Init /\ [][LiveNext]_vars

(***************************************************************************)
(* QuerySpec: the registry of a Counselor and a weekdays Volunteer, booked  *)
(* on one slot each, with every query and both accessors called in between. *)
(***************************************************************************)
QueryStaff == { o \in Registrants : Persons[o].id \in { C001, V003 } /\ o # 3 }
QueryIds == { Persons[o].id : o \in QueryStaff } \cup { Missing }

QueryNext ==
    \/ \E o \in QueryStaff : AddPerson(o)
    \/ \E person_id \in QueryIds : RemovePerson(person_id)
    \/ \E person_id \in QueryIds : CreateActivity("Math", Mon18, "10:00", person_id)
    \/ \E o \in QueryStaff : IsAvailable(o, Mon18, "10:00")
    \/ \E person_id \in QueryIds : FindPersonById(person_id)
    \/ \E o \in QueryStaff : GetPersonnelByType(Persons[o].cls)
    \/ GetPersonnelCount
    \/ VerifyAllCertifications
    \/ \E o \in QueryStaff \cap Certified : VerifyCertification(o)
    \/ ReadPersonnel
    \/ ReadActivities
    \/ GetNextId(<< "V" >>)

QuerySpec == Init /\ [][QueryNext]_vars

(***************************************************************************)
(* Claims.                                                                 *)
(***************************************************************************)
\* (date, time) is in the booking table tbl.
BookedIn(tbl, date, time) == date \in DOMAIN tbl /\ InList(time, tbl[date])

\* (date, time) is in the booking table of object o.
Booked(o, date, time) == BookedIn(schedules[o], date, time)

\* A record with this id is in the personnel list.
Registered(person_id) ==
    \E i \in 1..Len(personnel) : Persons[personnel[i]].id = person_id

\* The calls a step of Spec can make, as outcomes in the current state.
ScheduleCalls == { schedule(o, slot[1], slot[2]) : o \in Staff, slot \in Slots }
CreateCalls ==
    { create_activity(name, slot[1], slot[2], person_id) :
         name \in ActivityNames, slot \in Slots, person_id \in Ids }

\* C1: once schedule(date, time) has succeeded on a record the slot is in its
\* booking table; no later step removes it, and in every state where it is
\* there is_available(date, time) is false and schedule(date, time) raises
\* ScheduleConflictException, for records of all three classes.
C1_ClaimedSlotStaysClaimed ==
    /\ [][\A o \in Staff, slot \in Slots :
            Booked(o, slot[1], slot[2]) => Booked(o, slot[1], slot[2])']_vars
    /\ [](\A o \in Staff, slot \in Slots :
            LET c == schedule(o, slot[1], slot[2]) IN
            /\ c.ret = "True" => BookedIn(c.schedules[o], slot[1], slot[2])
            /\ Booked(o, slot[1], slot[2]) =>
                  /\ ~is_available_of(o, schedules[o], slot[1], slot[2])
                  /\ c.ret = "ScheduleConflictException")

\* C1 witness: a schedule call on the Counselor raised; the Counselor was
\* booked through create_activity and is no longer registered.
C1_Witness ==
    /\ last.op = "schedule"
    /\ last.result = "ScheduleConflictException"
    /\ last.person = 1
    /\ ~InList(1, personnel)
    /\ \E name \in DOMAIN activities :
          activities[name] =
             << [date |-> Sat16, time |-> "10:00", responsible |-> C001] >>
    /\ schedules[3] = EmptyDict

\* C2: schedule(date, time) returns True exactly when is_available(date, time)
\* holds before the call, and then the booking table gains (date, time) and
\* nothing else; otherwise it raises ScheduleConflictException (it never
\* returns False) and the booking tables are as before.
C2_ScheduleIffAvailable ==
    \A o \in Handles, date \in Dates, time \in Times :
       LET c == schedule(o, date, time) IN
       IF is_available_of(o, schedules[o], date, time)
       THEN /\ c.ret = "True"
            /\ \A d \in Dates, t \in Times :
                  BookedIn(c.schedules[o], d, t) <=>
                     ((d = date /\ t = time) \/ Booked(o, d, t))
       ELSE /\ c.ret = "ScheduleConflictException"
            /\ c.schedules = schedules

\* C2 witness: schedule on the weekends Volunteer raised for a slot that is
\* not in its booking table, after a successful booking of that Volunteer.
C2_Witness ==
    /\ last.op = "schedule"
    /\ last.result = "ScheduleConflictException"
    /\ last.person = 3
    /\ Booked(3, Sat16, "10:00")
    /\ Booked(3, Sat16, "14:00")

\* C3: create_activity returns True or False and never raises; it returns True
\* exactly when a record with the id is registered and that record's
\* is_available(date, time) holds before the call, whatever the activity name
\* and whatever the activities mapping holds.
C3_CreateActivityIffRegisteredAndAvailable ==
    \A name \in ActivityNames, slot \in Slots, person_id \in Ids :
       LET c == create_activity(name, slot[1], slot[2], person_id) IN
       /\ c.ret \in { "True", "False" }
       /\ c.ret = "True" <=>
             \E i \in 1..Len(personnel) :
                /\ Persons[personnel[i]].id = person_id
                /\ is_available_of(personnel[i], schedules[personnel[i]],
                                   slot[1], slot[2])

\* C3 witness: create_activity succeeded under a name that now holds the
\* bookings of two different persons.
C3_Witness ==
    /\ last.op = "create_activity"
    /\ last.result = "True"
    /\ \E name \in DOMAIN activities :
          /\ Len(activities[name]) = 2
          /\ activities[name][1].responsible # activities[name][2].responsible

\* What a call leaves behind is the current state.
NoSideEffect(c) ==
    /\ c.schedules = schedules
    /\ c.personnel = personnel
    /\ c.activities = activities
    /\ c.next_id = next_id

\* C4: a create_activity call that returns False leaves the personnel list,
\* the activities mapping, the id counter and every booking table as they were.
C4_FailedCreateActivityHasNoEffect ==
    \A c \in CreateCalls : c.ret = "False" => NoSideEffect(c)

\* C4 witness: create_activity returned False for the registered weekends
\* Volunteer, whose booking table is empty (the date did not match the pattern).
C4_Witness ==
    /\ last.op = "create_activity"
    /\ last.result = "False"
    /\ last.person = 3
    /\ InList(3, personnel)
    /\ schedules[3] = EmptyDict

\* C5: a create_activity call that returns True appends one booking with the
\* date, the time and the responsible id at the end of activities[name] (a new
\* list when the name was absent), adds (date, time) to the booking table of
\* the record, and leaves the other names, the other booking tables and the
\* personnel list as they were.
C5_SuccessfulCreateActivityEffect ==
    \A name \in ActivityNames, slot \in Slots, person_id \in Ids :
       LET c == create_activity(name, slot[1], slot[2], person_id)
           old == IF name \in DOMAIN activities THEN activities[name] ELSE << >>
       IN  c.ret = "True" =>
              /\ DOMAIN c.activities = DOMAIN activities \cup { name }
              /\ Len(c.activities[name]) = Len(old) + 1
              /\ SubSeq(c.activities[name], 1, Len(old)) = old
              /\ c.activities[name][Len(old) + 1] =
                    [date |-> slot[1], time |-> slot[2], responsible |-> person_id]
              /\ \A n \in DOMAIN activities \ { name } :
                    c.activities[n] = activities[n]
              /\ ~Booked(c.person, slot[1], slot[2])
              /\ \A d \in Dates, t \in Times :
                    BookedIn(c.schedules[c.person], d, t) <=>
                       (<< d, t >> = slot \/ Booked(c.person, d, t))
              /\ \A o \in Handles \ { c.person } : c.schedules[o] = schedules[o]
              /\ c.personnel = personnel

\* C5 witness: create_activity succeeded and a name holds two bookings.
C5_Witness ==
    /\ last.op = "create_activity"
    /\ last.result = "True"
    /\ \E name \in DOMAIN activities : Len(activities[name]) = 2

\* C6: a schedule or create_activity call changes no booking table and no
\* is_available result of a record other than the one it is made on, and a
\* slot a Counselor or Educator has not booked is available on it whatever
\* the other records have booked.
C6_ConflictsArePerRecord ==
    /\ \A c \in ScheduleCalls \cup CreateCalls :
          \A o \in Handles \ { c.person } :
             /\ c.schedules[o] = schedules[o]
             /\ \A slot \in Slots :
                   is_available_of(o, c.schedules[o], slot[1], slot[2])
                      = is_available_of(o, schedules[o], slot[1], slot[2])
    /\ \A o \in { 1, 2 }, slot \in Slots :
          ~Booked(o, slot[1], slot[2]) =>
             is_available_of(o, schedules[o], slot[1], slot[2])

\* C6 witness: two records of one registry are booked for the same slot, the
\* second through a direct schedule call.
C6_Witness ==
    /\ last.op = "schedule"
    /\ last.result = "True"
    /\ InList(1, personnel)
    /\ InList(2, personnel)
    /\ Booked(1, Sat16, "10:00")
    /\ Booked(2, Sat16, "10:00")

\* The list without the records carrying this id, order kept.
RECURSIVE WithoutId(_, _)
WithoutId(plist, person_id) ==
    IF plist = << >> THEN << >>
    ELSE IF Persons[Head(plist)].id = person_id
         THEN WithoutId(Tail(plist), person_id)
         ELSE << Head(plist) >> \o WithoutId(Tail(plist), person_id)

\* C7: add_person returns False and leaves the personnel list as it was when
\* a record with the same id is registered; otherwise it returns True and the
\* list is the old one with the record added at the end.
C7_AddPersonRefusesDuplicateId ==
    \A o \in Handles :
       LET c == add_person(o) IN
       IF Registered(Persons[o].id)
       THEN c.ret = "False" /\ c.personnel = personnel
       ELSE c.ret = "True" /\ c.personnel = personnel \o << o >>

\* C7 witness: add_person refused an object that is not in the list, another
\* object with its id being registered behind a first record.
C7_Witness ==
    /\ last.op = "add_person"
    /\ last.result = "False"
    /\ ~InList(last.person, personnel)
    /\ Len(personnel) >= 2
    /\ Persons[personnel[2]].id = Persons[last.person].id

\* C8: no two records of the personnel list have the same id.
C8_UniqueIds ==
    \A i, j \in 1..Len(personnel) :
       i # j => Persons[personnel[i]].id # Persons[personnel[j]].id

\* C8 witness: three records are registered and an add_person call has just
\* been refused.
C8_Witness ==
    /\ Len(personnel) = 3
    /\ last.op = "add_person"
    /\ last.result = "False"

\* C9: remove_person of a registered id returns True and leaves the list
\* without the record of that id, the others in their order; of any other id
\* it returns False and leaves the list as it was.  Once an id is not
\* registered find_person_by_id raises PersonNotFoundException for it, and
\* only a successful add_person of a record with that id registers it again.
C9_RemovePerson ==
    /\ [](\A person_id \in Ids :
            LET c == remove_person(person_id) IN
            /\ IF Registered(person_id)
               THEN /\ c.ret = "True"
                    /\ c.personnel = WithoutId(personnel, person_id)
                    /\ Len(c.personnel) = Len(personnel) - 1
                    /\ find_person(c.personnel, person_id) = 0
               ELSE /\ c.ret = "False"
                    /\ c.personnel = personnel
            /\ ~Registered(person_id) =>
                  find_person_by_id(person_id).ret = "PersonNotFoundException")
    /\ [][\A person_id \in Ids :
            (~Registered(person_id) /\ Registered(person_id)') =>
               /\ last'.op = "add_person"
               /\ last'.result = "True"
               /\ Persons[last'.person].id = person_id]_vars

\* C9 witness: remove_person returned True and left two records.
C9_Witness ==
    /\ last.op = "remove_person"
    /\ last.result = "True"
    /\ Len(personnel) = 2
    /\ find_person(personnel, Persons[last.person].id) = 0

\* C10: find_person_by_id raises PersonNotFoundException exactly when no
\* record with the id is registered; otherwise it returns a record of the
\* personnel list whose id is the argument.
C10_FindPersonById ==
    \A person_id \in Ids :
       LET c == find_person_by_id(person_id) IN
       IF Registered(person_id)
       THEN /\ c.ret = "person"
            /\ InList(c.person, personnel)
            /\ Persons[c.person].id = person_id
       ELSE c.ret = "PersonNotFoundException"

\* C10 witness: find_person_by_id returned the second record of the list.
C10_Witness ==
    /\ last.op = "find_person_by_id"
    /\ last.result = "person"
    /\ Len(personnel) >= 2
    /\ last.person = personnel[2]

\* C11: the k-th id get_next_id returns is a prefix followed by the number k
\* in at least three digits, whatever the prefixes and whatever add_person,
\* remove_person and create_activity calls come in between; no id is returned
\* twice, and the counter is one more than the number of ids returned.
C11_MintedIdsIncrease ==
    /\ next_id = Len(minted) + 1
    /\ \A k \in 1..Len(minted) :
          /\ \E role_prefix \in Prefixes :
                /\ SubSeq(minted[k], 1, Len(role_prefix)) = role_prefix
                /\ Len(minted[k]) >= Len(role_prefix) + 3
                /\ DecimalValue(SubSeq(minted[k], Len(role_prefix) + 1,
                                       Len(minted[k]))) = k
    /\ \A j, k \in 1..Len(minted) : j # k => minted[j] # minted[k]

\* C11 witness: three ids were returned, the first for a record that was
\* registered and has been removed since.
C11_Witness ==
    /\ Len(minted) = 3
    /\ minted[1] = C001
    /\ minted[2][1] = "V"
    /\ minted[3][1] = "C"
    /\ ~Registered(C001)
    /\ last.op = "get_next_id"

\* C12: get_next_id returns no id that a registered record carries.
C12_MintedIdNotRegistered ==
    \A role_prefix \in Prefixes : ~Registered(get_next_id(role_prefix).ret)

\* The volunteers of one availability pattern.
VolunteersOf(patterns) ==
    { o \in Handles : Persons[o].cls = "Volunteer" /\ Persons[o].availability \in patterns }

Weekend(date) == endswith(date, Sat) \/ endswith(date, Sun)

\* C13: a weekdays volunteer is available exactly on the slots it has not
\* booked whose date ends with neither Sat nor Sun.
C13_WeekdaysVolunteer ==
    \A o \in VolunteersOf({ "weekdays" }), date \in Dates, time \in Times :
        is_available(o, date, time).ret = "True"
            <=> (~Booked(o, date, time) /\ ~Weekend(date))

\* C14: a volunteer whose pattern is none of weekends, weekdays and all is
\* available on no slot; schedule and create_activity never succeed for it
\* and its booking table stays empty.
C14_OtherPatternNeverAvailable ==
    \A o \in Handles :
        (/\ Persons[o].cls = "Volunteer"
         /\ Persons[o].availability \notin { "weekends", "weekdays", "all" })
        => /\ schedules[o] = EmptyDict
           /\ \A date \in Dates, time \in Times :
                 /\ is_available(o, date, time).ret = "False"
                 /\ schedule(o, date, time).ret # "True"
                 /\ \A name \in ActivityNames :
                       create_activity(name, date, time, Persons[o].id).ret # "True"

\* C15: a weekends volunteer is available exactly on the slots it has not
\* booked whose date ends with Sat or Sun; a volunteer of pattern all is
\* available exactly on the slots it has not booked.
C15_WeekendsAndAllVolunteers ==
    /\ \A o \in VolunteersOf({ "weekends" }), date \in Dates, time \in Times :
          is_available(o, date, time).ret = "True"
              <=> (~Booked(o, date, time) /\ Weekend(date))
    /\ \A o \in VolunteersOf({ "all" }), date \in Dates, time \in Times :
          is_available(o, date, time).ret = "True" <=> ~Booked(o, date, time)

\* C15 witness: a weekends volunteer that has both Saturday slots booked was
\* asked and is available, which is for a Sunday slot; a volunteer of pattern
\* all exists.
C15_Witness ==
    /\ last.op = "is_available"
    /\ last.result = "True"
    /\ last.person \in VolunteersOf({ "weekends" })
    /\ \A time \in Times : Booked(last.person, Sat16, time)
    /\ VolunteersOf({ "all" }) # {}

\* The statements a caller can make on the values it holds, as outcomes in
\* the current state.
CallerStatements ==
    (IF held_personnel.state = "none" THEN {}
     ELSE { list_append(o) : o \in Newcomers }
          \cup { list_setitem(i, o) :
                   i \in 1..Len(ListOf(held_personnel)), o \in Newcomers }
          \cup (IF Len(ListOf(held_personnel)) > 0 THEN { list_pop } ELSE {}))
    \cup
    (IF held_activities.state = "none" THEN {}
     ELSE { dict_setitem(name) : name \in ActivityNames }
          \cup { dict_del(name) : name \in NamesOf(held_activities) }
          \cup { bookings_append(name, CallerBooking) :
                   name \in NamesOf(held_activities) }
          \cup { bookings_clear(name) : name \in NamesOf(held_activities) })

\* C16: no statement on a value read from personnel or activities (removing,
\* adding or replacing an entry of the list or of the mapping, appending to
\* or clearing a bookings list reached through the mapping) changes what a
\* later read of personnel or activities returns.
C16_HeldValuesAreDetached ==
    \A c \in CallerStatements :
        /\ c.personnel = personnel
        /\ c.activities = activities

\* C17: add_person, remove_person and create_activity leave the number of
\* records of a list read before, and the number of names of a mapping read
\* before, as they were; a fresh read has the registry's records and names.
C17_SnapshotKeepsItsLength ==
    /\ [][last'.op \in { "add_person", "remove_person", "create_activity" }
            => /\ Len(ListOf(held_personnel))' = Len(ListOf(held_personnel))
               /\ Cardinality(NamesOf(held_activities))'
                     = Cardinality(NamesOf(held_activities))]_vars
    /\ [](/\ ListOf(YouthCenter_personnel) = personnel
          /\ NamesOf(YouthCenter_activities) = DOMAIN activities)

\* C17 witness: a list and a mapping were read, then a record was added and
\* an activity created: the held values are shorter than the registry's.
C17_Witness ==
    /\ held_personnel.state = "copy"
    /\ held_activities.state = "copy"
    /\ Len(ListOf(held_personnel)) < Len(personnel)
    /\ Cardinality(NamesOf(held_activities)) < Cardinality(DOMAIN activities)
    /\ last.op = "create_activity"
    /\ last.result = "True"

\* The year, month and day an expiry token writes.
DateOf(token) ==
    << DecimalValue(SubSeq(token, 1, 4)), DecimalValue(SubSeq(token, 6, 7)),
       DecimalValue(SubSeq(token, 9, 10)) >>

\* Date a is later than date b.
Later(a, b) ==
    \/ a[1] > b[1]
    \/ a[1] = b[1] /\ a[2] > b[2]
    \/ a[1] = b[1] /\ a[2] = b[2] /\ a[3] > b[3]

\* The registered records of the classes that hold a certification.
CertifiedPersonnel == SelectSeq(personnel, ICertified)

\* C18: verify_all_certifications returns one result for each registered
\* Counselor or Educator, in the order of the registry, and none for a
\* Volunteer; a result has the record's id and name, certification_valid as
\* verify_certification gives it, and details as get_certification_details
\* gives them when valid, the fixed text when not.
C18_VerifyAllCertifications ==
    LET results == verify_all_certifications.ret IN
    /\ Len(results) = Len(CertifiedPersonnel)
    /\ \A k \in 1..Len(results) :
          LET person == CertifiedPersonnel[k]
              valid == verify_certification(person).ret = "True"
          IN  /\ Persons[person].cls # "Volunteer"
              /\ results[k].id = Persons[person].id
              /\ results[k].name = Persons[person].name
              /\ results[k].certification_valid = valid
              /\ valid => results[k].details = get_certification_details_of(person)
              /\ ~valid => results[k].details = << "Certification invalid or expired" >>
    /\ NoSideEffect(verify_all_certifications)

\* C18 witness: verify_all_certifications was called on a registry holding a
\* Volunteer, then an Educator whose certification is expired, then a
\* Counselor whose certification is valid.
C18_Witness ==
    /\ last.op = "verify_all_certifications"
    /\ Len(personnel) = 3
    /\ Persons[personnel[1]].cls = "Volunteer"
    /\ Persons[personnel[2]].cls = "Educator"
    /\ Persons[personnel[3]].cls = "Counselor"
    /\ certification_expiry[personnel[2]] = Expiry20221231
    /\ certification_expiry[personnel[3]] = Expiry20230102

\* C19: verify_certification returns True exactly when the expiry date is
\* later than 2023-01-01, returns True or False and raises nothing, and no
\* call changes what it returns for any record.
C19_VerifyCertification ==
    /\ [](\A o \in Certified :
             /\ verify_certification(o).ret \in { "True", "False" }
             /\ verify_certification(o).ret = "True"
                   <=> Later(DateOf(certification_expiry[o]), << 2023, 1, 1 >>)
             /\ NoSideEffect(verify_certification(o)))
    /\ [][\A o \in Certified :
             verify_certification(o).ret' = verify_certification(o).ret]_vars

\* C19 witness: a registered and booked record whose expiry is the threshold
\* itself was asked and is not valid.
C19_Witness ==
    /\ last.op = "verify_certification"
    /\ last.result = "False"
    /\ certification_expiry[last.person] = Expiry20230101
    /\ Registered(Persons[last.person].id)
    /\ Booked(last.person, Sat16, "10:00")

\* C20: the case load of every Counselor is between 0 and 20, whatever value
\* the constructor was given and whatever values were assigned.
C20_CaseLoadInRange ==
    \A o \in Counselors : 0 <= case_load[o] /\ case_load[o] <= 20

\* C21: assigning a value of 0..20 to case_load makes it the value read
\* afterwards; assigning a value outside 0..20 leaves the value that was
\* there, with no capping to 0 or 20, and raises nothing.
C21_CaseLoadSetter ==
    \A o \in Counselors, value \in CaseLoads :
        LET after == case_load_setter(case_load[o], value) IN
        /\ value \in 0..20 => after = value
        /\ value \notin 0..20 => after = case_load[o]

\* C21 witness: a registered Counselor was assigned a case load and reads 20,
\* the largest value accepted; values below 0 and above 20 are among those
\* assigned.
C21_Witness ==
    /\ last.op = "case_load"
    /\ case_load[last.person] = 20
    /\ Registered(Persons[last.person].id)
    /\ \E low, high \in CaseLoads : low < 0 /\ high > 20

\* C22: log_hours(h) with h > 0 adds exactly h to hours_completed and
\* returns True; with h <= 0 it returns False and leaves hours_completed as
\* it was; the booking tables and the other volunteers' hours are unchanged.
C22_LogHours ==
    \A o \in Volunteers, hours \in HourDeltas :
        LET c == log_hours(o, hours) IN
        /\ hours > 0 => /\ c.ret = "True"
                        /\ c.hours_completed[o] = hours_completed[o] + hours
        /\ hours <= 0 => /\ c.ret = "False"
                         /\ c.hours_completed[o] = hours_completed[o]
        /\ \A other \in Volunteers \ { o } :
              c.hours_completed[other] = hours_completed[other]
        /\ c.schedules = schedules

\* C22 witness: a booked volunteer with two hours logged was refused a
\* log_hours call.
C22_Witness ==
    /\ last.op = "log_hours"
    /\ last.result = "False"
    /\ hours_completed[last.person] = 2
    /\ Booked(last.person, Sat16, "10:00")

\* C23: hours_completed is 0 at the start and never negative, whatever is
\* assigned and logged; assigning a negative value leaves the value that
\* was there.
C23_HoursNonNegative ==
    /\ \A o \in Volunteers : hours_completed[o] = 0
    /\ [](\A o \in Volunteers :
             /\ hours_completed[o] >= 0
             /\ \A value \in HourValues :
                   value < 0 => hours_completed_setter(hours_completed[o], value)
                                   = hours_completed[o])

\* C23 witness: a volunteer was assigned hours and holds the largest value,
\* another one has logged hours.
C23_Witness ==
    /\ last.op = "hours_completed"
    /\ hours_completed[last.person] = MaxHours
    /\ \E other \in Volunteers \ { last.person } : hours_completed[other] > 0

Classes == { "Counselor", "Educator", "Volunteer" }

\* The number of records of a class in the personnel list.
RecordsOf(person_class) ==
    Cardinality({ i \in 1..Len(personnel) : Persons[personnel[i]].cls = person_class })

\* C24: get_personnel_count returns a mapping with the keys Counselor,
\* Educator and Volunteer and no other, each the number of registered records
\* of that class; a successful add_person raises the count of the record's
\* class by one and a successful remove_person lowers it by one, the other
\* counts staying as they were.
C24_PersonnelCount ==
    /\ [](LET counts == get_personnel_count.ret IN
          /\ DOMAIN counts = Classes
          /\ \A k \in Classes : counts[k] = RecordsOf(k)
          /\ Len(personnel) = 0 => \A k \in Classes : counts[k] = 0)
    /\ [][(last'.result = "True" /\ last'.op \in { "add_person", "remove_person" })
            => LET delta == IF last'.op = "add_person" THEN 1 ELSE -1
                   cls == Persons[last'.person].cls
               IN  \A k \in Classes :
                      get_personnel_count.ret'[k]
                        = get_personnel_count.ret[k] + (IF k = cls THEN delta ELSE 0)]_vars

\* C24 witness: get_personnel_count was called on a registry of one
\* Educator and two Volunteers.
C24_Witness ==
    /\ last.op = "get_personnel_count"
    /\ RecordsOf("Counselor") = 0
    /\ RecordsOf("Educator") = 1
    /\ RecordsOf("Volunteer") = 2

C26_TimesBookedOnce ==
    \A o \in Handles :
        \A date \in DOMAIN schedules[o] :
            LET times == schedules[o][date] IN
            /\ \A j, k \in 1..Len(times) : j # k => times[j] # times[k]
            /\ Len(times) = Cardinality({ time \in Times : Booked(o, date, time) })

\* C26 witness: a record holds both times of the Saturday, and a further
\* schedule call on it raised.
C26_Witness ==
    /\ last.op = "schedule"
    /\ last.result = "ScheduleConflictException"
    /\ Sat16 \in DOMAIN schedules[last.person]
    /\ Len(schedules[last.person][Sat16]) = 2
    /\ DOMAIN schedules[last.person] = { Sat16 }
    /\ Persons[last.person].cls = "Counselor"

\* The places of the bookings stored in activities, and those of one
\* responsible id, date and time.
Stored ==
    UNION { { << name, k >> : k \in 1..Len(activities[name]) } :
              name \in DOMAIN activities }
BookingAt(pos) == activities[pos[1]][pos[2]]
StoredFor(person_id, date, time) ==
    { pos \in Stored :
        BookingAt(pos) = [date |-> date, time |-> time, responsible |-> person_id] }

\* The objects that carry an id and hold a slot in their booking table.
Holders(person_id, date, time) ==
    { o \in Handles : Persons[o].id = person_id /\ Booked(o, date, time) }

\* C27 as stated: activities never holds two bookings with the same
\* responsible id, date and time.
C27_NoTwoBookingsOfOneSlot ==
    \A p, q \in Stored : p # q => BookingAt(p) # BookingAt(q)

\* C27 amended: activities holds no more bookings of a responsible id, date
\* and time than there are objects carrying that id with the slot in their
\* booking table; so the bookings of an id that one object only carries are
\* all of different slots.
C27_BookingsPerSlotAndRecord ==
    \A person_id \in Ids, slot \in Slots :
        /\ Cardinality(StoredFor(person_id, slot[1], slot[2]))
              <= Cardinality(Holders(person_id, slot[1], slot[2]))
        /\ Cardinality({ o \in Handles : Persons[o].id = person_id }) <= 1
              => Cardinality(StoredFor(person_id, slot[1], slot[2])) <= 1

\* C27 witness: two bookings of one id and slot are stored, made on two
\* objects that carried the id one after the other; a repeated
\* create_activity was refused.
C27_Witness ==
    /\ Cardinality(StoredFor(C001, Sat16, "10:00")) = 2
    /\ Cardinality(Holders(C001, Sat16, "10:00")) = 2
    /\ last.op = "create_activity"
    /\ last.result = "False"

\* C28 as stated: for every booking stored in activities whose responsible
\* id is registered, the record registered under that id holds the
\* booking's date and time and is not available then.
C28_RegisteredRecordHoldsBooking ==
    \A pos \in Stored :
        LET b == BookingAt(pos) IN
        Registered(b.responsible) =>
           LET person == find_person(personnel, b.responsible) IN
           /\ Booked(person, b.date, b.time)
           /\ is_available(person, b.date, b.time).ret = "False"

\* C28 amended: for every booking stored in activities an object carrying
\* the responsible id holds the booking's date and time; the record
\* registered under the id holds it, and is not available then, when no
\* other object carries that id.
C28_SomeRecordHoldsBooking ==
    \A pos \in Stored :
        LET b == BookingAt(pos)
            carriers == { o \in Handles : Persons[o].id = b.responsible }
        IN  /\ Holders(b.responsible, b.date, b.time) # {}
            /\ (Registered(b.responsible) /\ Cardinality(carriers) = 1)
                  => LET person == find_person(personnel, b.responsible) IN
                     /\ Booked(person, b.date, b.time)
                     /\ is_available(person, b.date, b.time).ret = "False"

\* C28 witness: a booking of C001 is stored, the object registered under
\* C001 does not hold its slot and another object carrying C001 does; a
\* booking of E002 is stored and held by the registered Educator.
C28_Witness ==
    /\ Registered(C001)
    /\ StoredFor(C001, Sat16, "10:00") # {}
    /\ ~Booked(find_person(personnel, C001), Sat16, "10:00")
    /\ Holders(C001, Sat16, "10:00") # {}
    /\ Registered(E002)
    /\ StoredFor(E002, Mon18, "10:00") # {}

\* C29: remove_person changes only the personnel list.  The activities
\* mapping (the bookings of the removed id included), the id counter and
\* every booking table (the removed record's included) are as before, and
\* the list loses the record with the id and nothing else.  add_person leaves
\* the booking tables alone too, so a record that is registered again still
\* holds its slots: create_activity on one of them returns False and changes
\* nothing, and schedule raises.
C29_RemovePersonFrame ==
    /\ [][last'.op \in { "remove_person", "add_person" } =>
            /\ schedules' = schedules
            /\ activities' = activities
            /\ next_id' = next_id]_vars
    /\ [](\A person_id \in Ids :
            LET c == remove_person(person_id) IN
            /\ c.schedules = schedules
            /\ c.activities = activities
            /\ c.next_id = next_id
            /\ c.ret = "True" =>
                  /\ Len(c.personnel) = Len(personnel) - 1
                  /\ \A i \in 1..Len(c.personnel) :
                        /\ Persons[c.personnel[i]].id # person_id
                        /\ InList(c.personnel[i], personnel)
            /\ c.ret # "True" => c.personnel = personnel)
    /\ [](\A person_id \in Ids, slot \in Slots, name \in ActivityNames :
            LET p == find_person(personnel, person_id)
                c == create_activity(name, slot[1], slot[2], person_id) IN
            (p # 0 /\ Booked(p, slot[1], slot[2])) =>
                /\ c.ret = "False"
                /\ NoSideEffect(c)
                /\ schedule(p, slot[1], slot[2]).ret = "ScheduleConflictException")

\* C29 witness: the Counselor has just been added, and it was registered
\* before: its booking of Saturday 10:00 is stored in activities and is in
\* its booking table, while the other object with its id holds nothing.
C29_Witness ==
    /\ last.op = "add_person"
    /\ last.result = "True"
    /\ last.person = 1
    /\ InList(1, personnel)
    /\ Booked(1, Sat16, "10:00")
    /\ StoredFor(C001, Sat16, "10:00") # {}
    /\ schedules[3] = EmptyDict
    /\ create_activity("Art", Sat16, "10:00", C001).ret = "False"

\* The operations that only ask.
QueryOps ==
    { "is_available", "find_person_by_id", "get_personnel_by_type",
      "get_personnel_count", "verify_all_certifications", "verify_certification",
      "personnel", "activities" }

\* C30: is_available, find_person_by_id, get_personnel_by_type,
\* get_personnel_count, verify_all_certifications, verify_certification and
\* the personnel and activities accessors leave the personnel list, the
\* activities mapping, the id counter and every booking table as they were,
\* whether they return or raise; get_next_id advances the id counter and
\* leaves the rest.
C30_QueriesChangeNothing ==
    /\ [][last'.op \in QueryOps =>
            /\ personnel' = personnel
            /\ activities' = activities
            /\ next_id' = next_id
            /\ schedules' = schedules]_vars
    /\ [][last'.op = "get_next_id" =>
            /\ personnel' = personnel
            /\ activities' = activities
            /\ schedules' = schedules]_vars
    /\ [](\A o \in Handles, date \in Dates, time \in Times :
            NoSideEffect(is_available(o, date, time)))
    /\ [](\A person_id \in Ids : NoSideEffect(find_person_by_id(person_id)))
    /\ [](\A person_class \in Classes :
            NoSideEffect(get_personnel_by_type(person_class)))
    /\ [](NoSideEffect(get_personnel_count))
    /\ [](NoSideEffect(verify_all_certifications))
    /\ [](\A x \in Certified : NoSideEffect(verify_certification(x)))
    /\ [](\A role_prefix \in Prefixes :
            LET c == get_next_id(role_prefix) IN
            /\ c.personnel = personnel
            /\ c.activities = activities
            /\ c.schedules = schedules
            /\ c.next_id = next_id + 1)

\* C30 witness: find_person_by_id has raised in a registry that holds a
\* record, a booking and an advanced id counter, after both accessors were
\* read.
C30_Witness ==
    /\ last.op = "find_person_by_id"
    /\ last.result = "PersonNotFoundException"
    /\ personnel # << >>
    /\ \E name \in DOMAIN activities : activities[name] # << >>
    /\ \E o \in Handles : schedules[o] # EmptyDict
    /\ next_id > 1
    /\ held_personnel.state = "copy"
    /\ held_activities.state = "copy"

====
